---------------------------- MODULE Spec2Model ----------------------------
(***************************************************************************)
(* Timeline nodes of src/performances/nodes.py: the generic Node lifecycle *)
(* (createNode, run), and the event-gated variants pause, chat_pause and   *)
(* chat together with the part of the Runner they call.                    *)
(*                                                                         *)
(* Times are integers counting twentieths of a second: the code's 0.1 is   *)
(* 2, its 0.05 is 1.                                                       *)
(***************************************************************************)
EXTENDS Integers, Sequences, FiniteSets, TLC

VARIABLES
    \* ---- generic Node (createNode / run) ----
    node,       \* the node object's fields
    n_made,     \* "no": not constructed, "yes": createNode returned a node,
                \* "dropped": createNode logged an error and returned None,
                \* "raised": an exception left createNode
    n_pos,      \* the start_time argument createNode was called with
    n_calls,    \* how often run has invoked each hook of the variant
    n_ret,      \* what the last run returned ("none" before the first)
    n_last_t,   \* run_time of the last run
    n_ticks,    \* number of run calls so far
    n_log,      \* number of logger.error calls
    \* ---- pause node, its timer and the Runner it calls ----
    p_cfg,      \* the node's data: topic, event_param, on_event, break, timeout
    ps,         \* the pause node's fields, its timer, and the Runner's state
    p_now,      \* wall clock, time.time()
    p_flight,   \* messages the Runner has handed to event_callback, per message,
                \* whose call has not run yet
    \* ---- chat node and the Runner it calls ----
    c_cfg,      \* the node's data: dialog_turns, timeout, timeout_mode, no_speech
    cs,         \* the chat node's fields, the Runner's state, and where the
                \* callback thread and the driving thread are inside add_turn
    c_now,      \* wall clock, time.time()
    \* ---- chat_pause node and the Runner it calls ----
    q_cfg,      \* the node's data: message, duration, start_time
    qs,         \* the chat_pause node's fields, the Runner's state, and where
                \* the driving thread is inside start
    q_now,      \* wall clock, time.time()
    \* ---- Node.replace_variables_text ----
    r_text,     \* the text given
    r_val,      \* what runner.get_variable returns for the names a and b
    r_out,      \* the text returned ("none" before the call)
    \* ---- attention: region sampling ----
    a_regions,  \* the regions given
    a_res       \* the call made (kind, arg) and what it returned, or that
                \* it raised (out)

nodeVars == <<node, n_made, n_pos, n_calls, n_ret, n_last_t, n_ticks, n_log>>
pauseVars == <<p_cfg, ps, p_now, p_flight>>
chatVars == <<c_cfg, cs, c_now>>
chatPauseVars == <<q_cfg, qs, q_now>>
textVars == <<r_text, r_val, r_out>>
sampleVars == <<a_regions, a_res>>

vars == <<nodeVars, pauseVars, chatVars, chatPauseVars, textVars, sampleVars>>

---------------------------------------------------------------------------
(* Bounds of the model *)
MaxStart == 2        \* start_time ranges over 0..MaxStart
MaxRawDuration == 3  \* data['duration'] ranges over 0..MaxRawDuration
MaxTicks == 3        \* run calls per node
MaxTimeout == 4      \* data['timeout'] ranges over 0..MaxTimeout, or is missing
MaxFlight == 2       \* event_callback calls handed out and not yet run
MaxDialogTurns == 2  \* data['dialog_turns'] ranges over 1..MaxDialogTurns
MaxChatTimeout == 1  \* chat data['timeout'] ranges over 0..MaxChatTimeout
MaxInputs == 2       \* user inputs a chat node receives
MaxStops == 2        \* 'stop' speech events a chat node receives
MaxLag == 1          \* time the Runner was paused before the node starts
MaxPieces == 3       \* pieces a text given to replace_variables_text is made of
MaxRegions == 2      \* regions given to the sampler
MaxCoord == 1        \* a region's x ranges over 0..MaxCoord
MaxSpan == 2         \* the largest width and height of a region
RandomSteps == 3     \* random.random() ranges over k / RandomSteps

(* Program constants, in twentieths of a second *)
MinDuration == 2     \* max(0.1, float(data['duration']))
PauseSpan == 2       \* pause.end_time: start_time + 0.1
TimerMin == 2        \* pause.start: if timeout > 0.1

Missing == -1        \* stands for a key the data does not have

MaxTime == MaxStart + MaxRawDuration + 1

Max(a, b) == IF a >= b THEN a ELSE b

---------------------------------------------------------------------------
(* Node *)

\* the classes Node.subClasses(Node) finds that the model tells apart by
\* their lifecycle: "gesture" stands for a variant that keeps Node.end_time
SubClassNames == {"gesture", "pause"}
DataNames == SubClassNames \cup {"bogus"}

NoNode ==
    [name |-> "", duration |-> 0, start_time |-> 0, started |-> FALSE,
     started_at |-> 0, finished |-> FALSE]

Node_init_Unfloored(data) ==
    [name |-> data.name,
     duration |-> data.duration,
     start_time |-> data.start_time,
     started |-> FALSE,
     started_at |-> 0,
     finished |-> FALSE]

\* Node.__init__
Node_init(data) ==
    [name |-> data.name,
     duration |-> Max(MinDuration, data.duration),
     start_time |-> data.start_time,
     started |-> FALSE,
     started_at |-> 0,
     finished |-> FALSE]

\* Node.end_time, and pause.end_time which overrides it
end_time(n) ==
    IF n.name = "pause" THEN n.start_time + PauseSpan
    ELSE n.start_time + n.duration

BackFill_NoStarted(n, pos) ==
    IF pos > n.start_time THEN [n EXCEPT !.finished = TRUE] ELSE n

\* createNode's back-fill of a node built at timeline position pos
BackFill(n, pos) ==
    IF pos > n.start_time
    THEN [n EXCEPT !.finished = TRUE,
                   !.started = IF pos < end_time(n) THEN TRUE ELSE @]
    ELSE n

MarkStarted_Forgotten(n, clock) == [n EXCEPT !.started_at = clock]

\* run: self.started = True; self.started_at = time.time()
MarkStarted(n, clock) == [n EXCEPT !.started = TRUE, !.started_at = clock]

\* The lifecycle state the two flags encode
State(n) ==
    IF n.finished THEN "Finished" ELSE IF n.started THEN "Active" ELSE "Pending"

Rank(n) == CASE State(n) = "Pending" -> 0
             [] State(n) = "Active" -> 1
             [] OTHER -> 2

NoCalls == [start |-> 0, stop |-> 0, cont |-> 0, paused |-> 0]

NodeInit ==
    /\ node = NoNode
    /\ n_made = "no"
    /\ n_pos = 0
    /\ n_calls = NoCalls
    /\ n_ret = "none"
    /\ n_last_t = 0
    /\ n_ticks = 0
    /\ n_log = 0

\* data['duration'] is there: without it Node.__init__ raises KeyError
HasDuration(data) == data.duration # Missing

\* Node.createNode(data, runner, start_time = pos)
createNode(data, pos) ==
    /\ n_made = "no"
    /\ n_pos' = pos
    /\ IF data.name \in SubClassNames
       THEN IF HasDuration(data)
            THEN /\ node' = BackFill(Node_init(data), pos)
                 /\ n_made' = "yes"
                 /\ n_log' = n_log
            ELSE /\ node' = node
                 /\ n_made' = "raised"
                 /\ n_log' = n_log
       ELSE /\ node' = node
            /\ n_made' = "dropped"
            /\ n_log' = n_log + 1
    /\ UNCHANGED <<n_calls, n_ret, n_last_t, n_ticks>>

FinishedResult_NeverStarted(n, t) ==
    IF n.started THEN "false"
    ELSE IF t < end_time(n) THEN "true" ELSE "false"

\* what run returns for a finished node: line 82
FinishedResult(n, t) ==
    IF ~n.started THEN "false"
    ELSE IF t < end_time(n) THEN "true" ELSE "false"

\* Node.run(run_time) on a finished node: lines 81-82
RunFinished(t) ==
    /\ node.finished
    /\ n_ret' = FinishedResult(node, t)
    /\ UNCHANGED <<node, n_calls, n_log>>

\* Node.run(run_time) on a started node: lines 84-93. A hook that raises
\* leaves run through the exception: nothing after the call is executed.
RunStarted(t, runner_paused, raises) ==
    /\ ~node.finished /\ node.started
    /\ IF t >= end_time(node)
       THEN /\ n_calls' = [n_calls EXCEPT !.stop = @ + 1]
            /\ IF raises
               THEN n_ret' = "raised" /\ node' = node
               ELSE n_ret' = "false" /\ node' = [node EXCEPT !.finished = TRUE]
       ELSE /\ n_calls' = IF runner_paused
                          THEN [n_calls EXCEPT !.paused = @ + 1]
                          ELSE [n_calls EXCEPT !.cont = @ + 1]
            /\ n_ret' = IF raises THEN "raised" ELSE "true"
            /\ node' = node
    /\ n_log' = n_log

\* Node.run(run_time) on a node not started yet: lines 94-101
RunPending(t, raises) ==
    /\ ~node.finished /\ ~node.started
    /\ IF t > node.start_time
       THEN /\ n_calls' = [n_calls EXCEPT !.start = @ + 1]
            /\ n_log' = IF raises THEN n_log + 1 ELSE n_log
            /\ node' = MarkStarted(node, n_ticks + 1)
       ELSE UNCHANGED <<node, n_calls, n_log>>
    /\ n_ret' = "true"

\* One tick of the driver: Node.run(run_time)
run(t, runner_paused, raises) ==
    /\ n_made = "yes"
    /\ n_ticks < MaxTicks
    /\ n_ticks' = n_ticks + 1
    /\ n_last_t' = t
    /\ n_pos' = n_pos
    /\ n_made' = n_made
    /\ \/ RunFinished(t)
       \/ RunStarted(t, runner_paused, raises)
       \/ RunPending(t, raises)

\* the data createNode is given; duration Missing: the key is not there
NodeData ==
    [name : DataNames, duration : {Missing} \cup 0..MaxRawDuration,
     start_time : 0..MaxStart]

---------------------------------------------------------------------------
(* Text, as sequences of one-character strings *)

Lower(c) == CASE c = "A" -> "a" [] c = "B" -> "b" [] OTHER -> c

\* str.lower
LowerStr(str) == [i \in 1..Len(str) |-> Lower(str[i])]

\* str.split(sep): the pieces between the separators, empty pieces kept
RECURSIVE Split(_, _)
Split(str, sep) ==
    IF \A i \in 1..Len(str) : str[i] # sep THEN <<str>>
    ELSE LET k == CHOOSE i \in 1..Len(str) :
                      str[i] = sep /\ \A j \in 1..(i - 1) : str[j] # sep
         IN <<SubSeq(str, 1, k - 1)>> \o Split(SubSeq(str, k + 1, Len(str)), sep)

\* str.strip
RECURSIVE Strip(_)
Strip(str) ==
    IF str = <<>> THEN str
    ELSE IF Head(str) = " " THEN Strip(Tail(str))
    ELSE IF str[Len(str)] = " " THEN Strip(SubSeq(str, 1, Len(str) - 1))
    ELSE str

\* str.index(sub) does not raise ValueError
Contains(str, sub) ==
    \E i \in 1..(Len(str) - Len(sub) + 1) : SubSeq(str, i, i + Len(sub) - 1) = sub

event_matched_All(param, msg) ==
    LET params == Split(LowerStr(param), ",")
    IN \A k \in 1..Len(params) : Contains(LowerStr(msg), Strip(params[k]))

\* pause.event_matched(param, msg)
event_matched(param, msg) ==
    LET params == Split(LowerStr(param), ",")
    IN \E k \in 1..Len(params) : Contains(LowerStr(msg), Strip(params[k]))

---------------------------------------------------------------------------
(* threading.Timer *)

NoTimer == [state |-> "none", deadline |-> 0, target |-> "none"]

\* Timer(interval, function).start()
Timer(clock, interval, function) ==
    [state |-> "armed", deadline |-> clock + interval, target |-> function]

\* Timer.cancel: stops a timer that still waits; one whose wait is over
\* calls its function all the same
timer_cancel(tm) ==
    IF tm.state = "armed" THEN [tm EXCEPT !.state = "cancelled"] ELSE tm

---------------------------------------------------------------------------
(* Runner: the calls of the nodes that change its pause state or its
   registration table, and counters of the others *)

runner_pause(s) == [s EXCEPT !.paused = TRUE, !.nPause = @ + 1]

runner_resume(s) ==
    [s EXCEPT !.paused = FALSE, !.nResume = @ + 1,
              !.resumedAt = IF s.nResume = 0 THEN s.clock ELSE @]

runner_register(s) == [s EXCEPT !.registered = TRUE, !.nRegister = @ + 1]

runner_unregister(s) == [s EXCEPT !.registered = FALSE, !.nUnregister = @ + 1]

---------------------------------------------------------------------------
(* pause *)

Params == {<<>>, <<"a">>, <<"a", ",", " ", "B">>}
Msgs == {<<>>, <<"x", "A">>, <<"b">>}
Topics == {"", "chan", "ROSPARAM"}

\* data of a pause node. topic "" is the value pause.__init__ leaves when
\* the key is missing (False), event_param <<>> likewise; timeout -1 stands
\* for a missing key; rosparam is what rospy.get_param(event_param) reads
PauseData ==
    {d \in [topic : Topics, event_param : Params, on_event : BOOLEAN,
            brk : {"absent", "true", "false"}, timeout : -1..MaxTimeout,
            rosparam : BOOLEAN, start_time : 0..1] :
        /\ (~d.on_event => d.brk = "absent")
        /\ (d.rosparam => d.topic = "ROSPARAM" /\ d.event_param # <<>>)}

\* pause.__init__, with the Runner not paused and the clock at 0
PauseInitState(d) ==
    [node |-> Node_init([name |-> "pause", duration |-> 0,
                         start_time |-> d.start_time]),
     ref |-> FALSE,          \* self.event_callback_ref
     timer |-> NoTimer,      \* self.timer
     paused |-> FALSE,       \* runner.paused
     run_time |-> 0,         \* the Runner's timeline position
     registered |-> FALSE,   \* the Runner's table holds event_callback
     clock |-> 0,            \* time.time() as the running call reads it
     nPause |-> 0, nResume |-> 0, resumedAt |-> 0,
     nRegister |-> 0, nUnregister |-> 0,
     nInterrupt |-> 0, nQueue |-> 0, nRunFull |-> 0,
     nLog |-> 0,
     cbCount |-> 0,          \* event_callback calls that have run
     cbPassed |-> 0,         \* those of them the keyword filter let through
     timerRan |-> FALSE,     \* the timer has called its function
     stopped |-> FALSE]      \* pause.stop has run

delete_callback_ref_Keep(s) == s

\* pause.delete_callback_ref
delete_callback_ref(s) ==
    IF s.ref THEN [runner_unregister(s) EXCEPT !.ref = FALSE] ELSE s

pause_resume_Unguarded(s) ==
    [runner_resume(s) EXCEPT !.timer = timer_cancel(@)]

\* pause.resume
pause_resume(s) ==
    LET s1 == IF ~s.node.finished THEN runner_resume(s) ELSE s
    IN [s1 EXCEPT !.timer = timer_cancel(@)]

\* pause.start_performance
start_performance(d, s) ==
    LET s1 == [s EXCEPT !.timer = timer_cancel(@)]
    IN IF d.brk = "false"
       THEN [s1 EXCEPT !.nInterrupt = @ + 1, !.nQueue = @ + 1]
       ELSE [s1 EXCEPT !.nRunFull = @ + 1]

\* pause.event_callback(msg)
event_callback(d, s, msg) ==
    LET s1 == [delete_callback_ref(s) EXCEPT !.cbCount = @ + 1]
       s2 == [s1 EXCEPT !.cbPassed = @ + 1]
    IN IF d.event_param # <<>> /\ ~event_matched(d.event_param, msg) THEN s1
       ELSE IF d.on_event THEN start_performance(d, s2)
       ELSE pause_resume(s2)

pause_arm_timeout_Early(d, s) ==
    IF d.timeout = -1 THEN [s EXCEPT !.nLog = @ + 1]
    ELSE IF d.timeout > TimerMin
         THEN [s EXCEPT !.timer = Timer(s.clock, d.timeout - 1, "resume")]
         ELSE s

\* pause.start, lines 395-401: the timeout timer
pause_arm_timeout(d, s) ==
    IF d.timeout = -1 THEN [s EXCEPT !.nLog = @ + 1]
    ELSE IF d.timeout > TimerMin
         THEN [s EXCEPT !.timer = Timer(s.clock, d.timeout, "resume")]
         ELSE s

\* pause.start
pause_start(d, s) ==
    LET s1 == runner_pause(s)
    IN IF d.topic # "ROSPARAM"
       THEN pause_arm_timeout(d, [runner_register(s1) EXCEPT !.ref = TRUE])
       ELSE IF d.event_param # <<>> /\ d.rosparam
            THEN [s1 EXCEPT !.timer = Timer(s.clock, 0, "event")]
            ELSE pause_arm_timeout(d, s1)

\* pause.stop
pause_stop(s) ==
    [delete_callback_ref(s) EXCEPT !.timer = timer_cancel(@), !.stopped = TRUE]

\* Node.run(run_time) of a pause node, at the Runner's timeline position
pause_run(d, s) ==
    IF s.node.finished THEN s
    ELSE IF s.node.started
         THEN IF s.run_time >= end_time(s.node)
              THEN [pause_stop(s) EXCEPT !.node.finished = TRUE]
              ELSE s
         ELSE IF s.run_time > s.node.start_time
              THEN [pause_start(d, s) EXCEPT !.node = MarkStarted(@, s.clock)]
              ELSE s

FlightCount == LET RECURSIVE Sum(_)
                   Sum(S) == IF S = {} THEN 0
                             ELSE LET m == CHOOSE m \in S : TRUE
                                  IN p_flight[m] + Sum(S \ {m})
               IN Sum(Msgs)

MaxNowPause == MaxTimeout + 1

PauseInit ==
    /\ p_cfg \in PauseData
    /\ ps = PauseInitState(p_cfg)
    /\ p_now = 0
    /\ p_flight = [m \in Msgs |-> 0]

PauseIdle ==
    /\ p_cfg = [topic |-> "", event_param |-> <<>>, on_event |-> FALSE,
                brk |-> "absent", timeout |-> -1, rosparam |-> FALSE,
                start_time |-> 0]
    /\ ps = PauseInitState(p_cfg)
    /\ p_now = 0
    /\ p_flight = [m \in Msgs |-> 0]

\* the driver's tick
PauseTick ==
    /\ ps' = pause_run(p_cfg, [ps EXCEPT !.clock = p_now])
    /\ UNCHANGED <<p_cfg, p_now, p_flight>>

\* time passes: the Runner's timeline position follows the wall clock
\* unless the Runner is paused
PauseClock ==
    /\ \/ p_now < MaxNowPause
       \/ ps.timer.state = "armed" /\ p_now < ps.timer.deadline
       \/ ~ps.paused /\ ps.node.started /\ ps.run_time < end_time(ps.node)
    /\ p_now' = p_now + 1
    /\ ps' = [ps EXCEPT !.run_time = IF ps.paused THEN @ ELSE @ + 1]
    /\ UNCHANGED <<p_cfg, p_flight>>

\* a message arrives on the node's topic while event_callback is in the
\* Runner's table: the Runner hands it to a thread that will call it
PauseDispatch(msg) ==
    /\ ps.registered
    /\ p_cfg.topic = "chan"
    /\ FlightCount < MaxFlight
    /\ p_flight' = [p_flight EXCEPT ![msg] = @ + 1]
    /\ UNCHANGED <<p_cfg, ps, p_now>>

\* that thread calls event_callback(msg)
PauseEventCallback(msg) ==
    /\ p_flight[msg] > 0
    /\ p_flight' = [p_flight EXCEPT ![msg] = @ - 1]
    /\ ps' = event_callback(p_cfg, [ps EXCEPT !.clock = p_now], msg)
    /\ UNCHANGED <<p_cfg, p_now>>

\* Timer.run: the wait is over and the timer was not cancelled
PauseTimerExpire ==
    /\ ps.timer.state = "armed"
    /\ p_now >= ps.timer.deadline
    /\ ps' = [ps EXCEPT !.timer.state = "running"]
    /\ UNCHANGED <<p_cfg, p_now, p_flight>>

\* Timer.run: the timer thread calls its function
PauseTimerRun ==
    /\ ps.timer.state = "running"
    /\ LET s0 == [ps EXCEPT !.clock = p_now, !.timerRan = TRUE]
           s1 == IF ps.timer.target = "resume" THEN pause_resume(s0)
                 ELSE event_callback(p_cfg, s0, p_cfg.event_param)
       IN ps' = [s1 EXCEPT !.timer.state = "fired"]
    /\ UNCHANGED <<p_cfg, p_now, p_flight>>

---------------------------------------------------------------------------
(* chat *)

ChatData ==
    [dialog_turns : 1..MaxDialogTurns, timeout : 0..MaxChatTimeout,
     timeout_mode : {"each", "whole"}, no_speech : BOOLEAN,
     duration : {0}, start_time : {0}]

Threads == {"cb", "drv"}

\* chat.__init__, with the Runner not paused and the clock at 0
ChatInitState(d) ==
    [node |-> Node_init([name |-> "chat", duration |-> d.duration,
                         start_time |-> d.start_time]),
     subscriber |-> FALSE,   \* self.subscriber: the input listener
     turns |-> 0,
     last_turn_at |-> 0,
     talking |-> FALSE,
     speechReg |-> FALSE,    \* the Runner's table holds speech_event_callback
     paused |-> FALSE,       \* runner.paused
     run_time |-> 0,         \* the Runner's timeline position
     clock |-> 0,            \* time.time() as the running call reads it
     pc |-> [th \in Threads |-> "idle"],   \* position inside add_turn
     tmp |-> [th \in Threads |-> 0],       \* the value of turns it loaded
     nPause |-> 0, nResume |-> 0,
     nChat |-> 0,            \* Event('chat') published
     nChatEnd |-> 0,         \* Event('chat_end') published
     nTTS |-> 0,
     nStored |-> 0,          \* add_turn calls that have stored turns
     nIn |-> 0,              \* user inputs received
     nStop |-> 0,            \* 'stop' speech events received
     clean |-> TRUE,         \* so far: input, 'stop', input, 'stop', ...,
                             \* each handled before the next arrived, and
                             \* no timeout of paused()
     stopped |-> FALSE]

chat_runner_pause(s) == [s EXCEPT !.paused = TRUE, !.nPause = @ + 1]

chat_runner_resume(s) == [s EXCEPT !.paused = FALSE, !.nResume = @ + 1]

chat_resume_Silent(s) ==
    [chat_runner_resume(s) EXCEPT !.node.duration = 0, !.subscriber = FALSE]

\* chat.resume
chat_resume(s) ==
    [chat_runner_resume(s) EXCEPT !.node.duration = 0,
                                  !.nChatEnd = @ + 1,
                                  !.subscriber = FALSE]

respond_Silent(s) == [s EXCEPT !.talking = TRUE, !.nTTS = @ + 1]

\* chat.respond
respond(s) == [s EXCEPT !.nChatEnd = @ + 1, !.talking = TRUE, !.nTTS = @ + 1]

\* the whole-session timeout has elapsed
WholeElapsed(d, s) ==
    d.timeout_mode = "whole" /\ s.clock - s.node.started_at >= d.timeout

\* chat.add_turn, line 546: the load of self.turns += 1
add_turn_load(s, th) ==
    [s EXCEPT !.tmp[th] = s.turns, !.pc[th] = "store"]

\* chat.add_turn, lines 546-547: the store of self.turns += 1, last_turn_at
add_turn_store(s, th) ==
    [s EXCEPT !.turns = s.tmp[th] + 1, !.nStored = @ + 1,
              !.last_turn_at = s.clock, !.pc[th] = "test"]

add_turn_test_OffByOne(d, s, th) ==
    LET s1 == [s EXCEPT !.pc[th] = IF th = "cb" THEN "flag" ELSE "idle"]
    IN IF s.turns <= d.dialog_turns /\ ~WholeElapsed(d, s)
       THEN [s1 EXCEPT !.nChat = @ + 1]
       ELSE chat_resume(s1)

\* chat.add_turn, lines 549-553
add_turn_test(d, s, th) ==
    LET s1 == [s EXCEPT !.pc[th] = IF th = "cb" THEN "flag" ELSE "idle"]
    IN IF s.turns < d.dialog_turns /\ ~WholeElapsed(d, s)
       THEN [s1 EXCEPT !.nChat = @ + 1]
       ELSE chat_resume(s1)

\* chat.start
chat_start(s) ==
    [chat_runner_pause(s) EXCEPT !.last_turn_at = s.clock,
                                 !.subscriber = TRUE,
                                 !.nChat = @ + 1,
                                 !.speechReg = TRUE]

\* chat.stop
chat_stop(s) == [s EXCEPT !.speechReg = FALSE, !.stopped = TRUE]

\* chat.paused: the timeout has run out
TimedOut(d, s) ==
    /\ d.timeout # 0 /\ ~s.talking
    /\ \/ d.timeout_mode = "each" /\ s.clock - s.last_turn_at >= d.timeout
       \/ d.timeout_mode = "whole" /\ s.clock - s.node.started_at >= d.timeout

\* chat.paused; its add_turn goes on in the driving thread's later steps
chat_paused(d, s) ==
    IF TimedOut(d, s)
    THEN IF d.no_speech THEN [respond(s) EXCEPT !.clean = FALSE]
         ELSE [s EXCEPT !.pc["drv"] = "load", !.clean = FALSE]
    ELSE s

\* Node.run(run_time) of a chat node, at the Runner's timeline position
chat_run(d, s) ==
    IF s.node.finished THEN s
    ELSE IF s.node.started
         THEN IF s.run_time >= end_time(s.node)
              THEN [chat_stop(s) EXCEPT !.node.finished = TRUE]
              ELSE IF s.paused THEN chat_paused(d, s)
              ELSE s
         ELSE IF s.run_time > s.node.start_time
              THEN [chat_start(s) EXCEPT !.node = MarkStarted(@, s.clock)]
              ELSE s

MaxNowChat == MaxChatTimeout + 2

ChatInit ==
    /\ c_cfg \in ChatData
    /\ cs = ChatInitState(c_cfg)
    /\ c_now = 0

ChatIdle ==
    /\ c_cfg = [dialog_turns |-> 1, timeout |-> 0, timeout_mode |-> "each",
                no_speech |-> FALSE, duration |-> 0, start_time |-> 0]
    /\ cs = ChatInitState(c_cfg)
    /\ c_now = 0

\* the driver's tick; the driving thread is not inside add_turn
ChatTick ==
    /\ cs.pc["drv"] = "idle"
    /\ cs' = chat_run(c_cfg, [cs EXCEPT !.clock = c_now])
    /\ UNCHANGED <<c_cfg, c_now>>

\* time passes: the Runner's timeline position follows the wall clock
\* unless the Runner is paused
ChatClock ==
    /\ \/ c_now < MaxNowChat
       \/ ~cs.paused /\ cs.node.started /\ cs.run_time < end_time(cs.node)
    /\ c_now' = c_now + 1
    /\ cs' = [cs EXCEPT !.run_time = IF cs.paused THEN @ ELSE @ + 1]
    /\ UNCHANGED c_cfg

\* input_callback: a user input arrives while the listener is subscribed
ChatInput ==
    /\ cs.subscriber
    /\ cs.nIn < MaxInputs
    /\ cs' = [respond(cs) EXCEPT !.nIn = @ + 1,
                                 !.clean = /\ cs.clean /\ cs.nIn = cs.nStop
                                           /\ cs.pc["cb"] = "idle"]
    /\ UNCHANGED <<c_cfg, c_now>>

\* speech_event_callback(msg), line 570-572: a speech event arrives while
\* the callback is in the Runner's table; on 'stop' it enters add_turn
ChatSpeechEvent(event) ==
    /\ cs.speechReg
    /\ cs.pc["cb"] = "idle"
    /\ cs.nStop < MaxStops
    /\ cs' = IF event = "stop"
             THEN [cs EXCEPT !.pc["cb"] = "load", !.nStop = @ + 1,
                             !.clean = cs.clean /\ cs.nIn = cs.nStop + 1]
             ELSE cs
    /\ UNCHANGED <<c_cfg, c_now>>

\* a thread inside add_turn takes its next step
ChatAddTurnLoad(th) ==
    /\ cs.pc[th] = "load"
    /\ cs' = add_turn_load(cs, th)
    /\ UNCHANGED <<c_cfg, c_now>>

ChatAddTurnStore(th) ==
    /\ cs.pc[th] = "store"
    /\ cs' = add_turn_store([cs EXCEPT !.clock = c_now], th)
    /\ UNCHANGED <<c_cfg, c_now>>

ChatAddTurnTest(th) ==
    /\ cs.pc[th] = "test"
    /\ cs' = add_turn_test(c_cfg, [cs EXCEPT !.clock = c_now], th)
    /\ UNCHANGED <<c_cfg, c_now>>

\* speech_event_callback, line 573: self.talking = False
ChatTalkingOff ==
    /\ cs.pc["cb"] = "flag"
    /\ cs' = [cs EXCEPT !.talking = FALSE, !.pc["cb"] = "idle"]
    /\ UNCHANGED <<c_cfg, c_now>>

---------------------------------------------------------------------------
(* chat_pause *)

\* data of a chat_pause node; message says whether data['message'] is there
\* and not empty
ChatPauseData ==
    [message : BOOLEAN, duration : 0..MaxRawDuration, start_time : 0..1]

\* chat_pause.__init__, with the Runner not paused. The performance began
\* at wall clock 0: runner.start_timestamp
ChatPauseInitState(d) ==
    [node |-> Node_init([name |-> "chat_pause", duration |-> d.duration,
                         start_time |-> d.start_time]),
     subscriber |-> FALSE,   \* self.subscriber
     start_timestamp |-> 0,  \* runner.start_timestamp
     paused |-> FALSE,       \* runner.paused
     run_time |-> 0,         \* the Runner's timeline position
     clock |-> 0,            \* time.time() as the running call reads it
     pc |-> "idle",          \* "wait": the driving thread is in start's loop
     nPause |-> 0, nResume |-> 0,
     nChatbot |-> 0,         \* ChatMessage published
     nStop |-> 0,            \* 'stop' speech events received
     stopped |-> FALSE]

\* chat_pause.resume
chat_pause_resume(s) ==
    [s EXCEPT !.node.duration = 0, !.paused = FALSE, !.nResume = @ + 1]

chat_pause_waiting_Unbounded(s) == ~s.node.finished

\* chat_pause.start, line 435: the condition of the busy-wait loop
chat_pause_waiting(s) ==
    /\ ~s.node.finished
    /\ s.start_timestamp + s.node.start_time + s.node.duration > s.clock

\* chat_pause.start, lines 423-433: up to the loop
chat_pause_start(s) ==
    [s EXCEPT !.paused = TRUE, !.nPause = @ + 1, !.nChatbot = @ + 1,
              !.subscriber = TRUE, !.pc = "wait"]

\* chat_pause.stop
chat_pause_stop(s) == [s EXCEPT !.subscriber = FALSE, !.stopped = TRUE]

\* Node.run(run_time) of a chat_pause node, at the Runner's timeline
\* position; with a message, start goes on in the driving thread's loop
chat_pause_run(d, s) ==
    IF s.node.finished THEN s
    ELSE IF s.node.started
         THEN IF s.run_time >= end_time(s.node)
              THEN [chat_pause_stop(s) EXCEPT !.node.finished = TRUE]
              ELSE s
         ELSE IF s.run_time > s.node.start_time
              THEN IF d.message THEN chat_pause_start(s)
                   ELSE [chat_pause_resume(s) EXCEPT
                             !.node = MarkStarted(@, s.clock)]
              ELSE s

ChatPauseInit ==
    /\ q_cfg \in ChatPauseData
    /\ qs = ChatPauseInitState(q_cfg)
    /\ q_now \in 0..MaxLag

ChatPauseIdle ==
    /\ q_cfg = [message |-> FALSE, duration |-> 0, start_time |-> 0]
    /\ qs = ChatPauseInitState(q_cfg)
    /\ q_now = 0

\* the driver's tick; the driving thread is not inside start
ChatPauseTick ==
    /\ qs.pc = "idle"
    /\ qs' = chat_pause_run(q_cfg, [qs EXCEPT !.clock = q_now])
    /\ UNCHANGED <<q_cfg, q_now>>

\* chat_pause.start, lines 435-437, and run, lines 100-101: the driving
\* thread tests the loop's condition; it sleeps and tests again, or leaves
\* the loop, calls resume and returns to run
ChatPauseLoop ==
    /\ qs.pc = "wait"
    /\ LET s == [qs EXCEPT !.clock = q_now]
       IN qs' = IF chat_pause_waiting(s) THEN qs
                ELSE [chat_pause_resume(s) EXCEPT
                          !.node = MarkStarted(@, s.clock), !.pc = "idle"]
    /\ UNCHANGED <<q_cfg, q_now>>

\* speech_event_callback(event): a speech event arrives while subscribed
ChatPauseSpeechEvent(event) ==
    /\ qs.subscriber
    /\ qs.nStop < MaxStops
    /\ qs' = IF event = "stop"
             THEN [chat_pause_resume(qs) EXCEPT !.nStop = @ + 1]
             ELSE qs
    /\ UNCHANGED <<q_cfg, q_now>>

MaxNowChatPause == MaxLag + 2

\* time passes: the Runner's timeline position follows the wall clock
\* unless the Runner is paused
ChatPauseClock ==
    /\ \/ q_now < MaxNowChatPause
       \/ /\ qs.pc = "wait"
          /\ qs.start_timestamp + qs.node.start_time + qs.node.duration > q_now
       \/ ~qs.paused /\ qs.node.started /\ qs.run_time < end_time(qs.node)
    /\ q_now' = q_now + 1
    /\ qs' = [qs EXCEPT !.run_time = IF qs.paused THEN @ ELSE @ + 1]
    /\ UNCHANGED q_cfg

---------------------------------------------------------------------------
(* Node.replace_variables_text *)

\* \w, over the characters the texts are made of
IsWord(c) == c \in {"a", "b", "x"}

\* the end of a match of {(\w*?)} at the head of str, or 0
TokenEnd(str) ==
    IF str # <<>> /\ Head(str) = "{" /\
       \E j \in 2..Len(str) :
           str[j] = "}" /\ \A i \in 2..(j - 1) : IsWord(str[i])
    THEN CHOOSE j \in 2..Len(str) :
             str[j] = "}" /\ \A i \in 2..(j - 1) : IsWord(str[i])
    ELSE 0

\* re.findall("{(\w*?)}", text): the names of the tokens, left to right
RECURSIVE FindAll(_)
FindAll(str) ==
    IF str = <<>> THEN <<>>
    ELSE IF TokenEnd(str) # 0
         THEN <<SubSeq(str, 2, TokenEnd(str) - 1)>>
                  \o FindAll(SubSeq(str, TokenEnd(str) + 1, Len(str)))
         ELSE FindAll(Tail(str))

\* str.replace(old, new), old not empty: every occurrence, left to right
RECURSIVE StrReplace(_, _, _)
StrReplace(str, old, new) ==
    IF Len(str) < Len(old) THEN str
    ELSE IF SubSeq(str, 1, Len(old)) = old
         THEN new \o StrReplace(SubSeq(str, Len(old) + 1, Len(str)), old, new)
         ELSE <<Head(str)>> \o StrReplace(Tail(str), old, new)

\* self.runner.get_variable(self.id, var) or ''
get_variable(vals, var) ==
    IF var = <<"a">> THEN vals.a
    ELSE IF var = <<"b">> THEN vals.b
    ELSE <<>>

\* the loop of replace_variables_text over the names found
RECURSIVE ReplaceEach(_, _, _)
ReplaceEach(text, variables, vals) ==
    IF variables = <<>> THEN text
    ELSE ReplaceEach(StrReplace(text, <<"{">> \o Head(variables) \o <<"}">>,
                                get_variable(vals, Head(variables))),
                     Tail(variables), vals)

\* Node.replace_variables_text(text)
replace_variables_text(text, vals) == ReplaceEach(text, FindAll(text), vals)

Pieces == {<<"x">>, <<"{", "a", "}">>, <<"{", "b", "}">>, <<"{">>, <<"}">>}

RECURSIVE Concat(_)
Concat(ps_) == IF ps_ = <<>> THEN <<>> ELSE Head(ps_) \o Concat(Tail(ps_))

Texts == {Concat(q) : q \in UNION {[1..n -> Pieces] : n \in 0..MaxPieces}}

\* values of a variable: <<>> is also what an unresolved variable gives
Values == {<<>>, <<"x">>, <<"{", "a", "}">>, <<"{", "b", "}">>}

TextInit ==
    /\ r_text \in Texts
    /\ r_val \in [a : Values, b : Values]
    /\ r_out = "none"

TextIdle ==
    /\ r_text = <<>>
    /\ r_val = [a |-> <<>>, b |-> <<>>]
    /\ r_out = "none"

\* a call of replace_variables_text(text)
ReplaceVariablesText ==
    /\ r_out = "none"
    /\ r_out' = replace_variables_text(r_text, r_val)
    /\ UNCHANGED <<r_text, r_val>>

---------------------------------------------------------------------------
(* attention: region sampling. A position is a fraction num / den, and the
   value random.random() returned is draw / RandomSteps *)

\* r[axis] and the region's extent along the axis
AxisKey(r, axis) == IF axis = "x" THEN r.x ELSE r.y
AxisSpan(r, axis) == IF axis = "x" THEN r.width ELSE r.height

\* sorted(regions, key = lambda r: r[axis]): a stable sort
RECURSIVE SortedBy(_, _)
SortedBy(regions, axis) ==
    IF regions = <<>> THEN <<>>
    ELSE LET last == regions[Len(regions)]
             front == SortedBy(SubSeq(regions, 1, Len(regions) - 1), axis)
             n == Cardinality({i \in 1..Len(front) :
                                  AxisKey(front[i], axis) <= AxisKey(last, axis)})
         IN SubSeq(front, 1, n) \o <<last>> \o SubSeq(front, n + 1, Len(front))

\* the first loop of get_random_axis_position, from region i on: the
\* interval of every region on the covered length, and the covered length
RECURSIVE AxisLengths(_, _, _, _, _)
AxisLengths(regions, axis, i, prev_end, length) ==
    IF i > Len(regions) THEN [lengths |-> <<>>, length |-> length]
    ELSE LET begin == AxisKey(regions[i], axis)
             end == begin + AxisSpan(regions[i], axis)
             diff == prev_end - begin
             l == IF prev_end > begin
                  THEN <<length - diff, length - diff + end - begin>>
                  ELSE <<length, length + end - begin>>
             begin2 == IF prev_end > begin THEN prev_end ELSE begin
             rest == AxisLengths(regions, axis, i + 1, Max(begin2, end),
                                 length + Max(0, end - begin2))
         IN [lengths |-> <<l>> \o rest.lengths, length |-> rest.length]

NoPosition == [raised |-> FALSE, num |-> 0, den |-> 1, matched |-> <<>>]

AxisPosition_Mirrored(r, axis, l, rvalN) ==
    [num |-> AxisKey(r, axis) * (l[2] - l[1]) * RandomSteps
                 + AxisSpan(r, axis) * (l[2] * RandomSteps - rvalN),
     den |-> (l[2] - l[1]) * RandomSteps]

\* lines 619-620: the position inside region r for the value rvalN /
\* RandomSteps, which lies in the interval l of r
AxisPosition(r, axis, l, rvalN) ==
    [num |-> AxisKey(r, axis) * (l[2] - l[1]) * RandomSteps
                 + AxisSpan(r, axis) * (rvalN - l[1] * RandomSteps),
     den |-> (l[2] - l[1]) * RandomSteps]

\* the second loop of get_random_axis_position, from region i on; the
\* division by length[1] - length[0] raises ZeroDivisionError when it is 0
RECURSIVE AxisSelect(_, _, _, _, _, _)
AxisSelect(regions, axis, lengths, rvalN, i, acc) ==
    IF i > Len(regions) \/ acc.raised THEN acc
    ELSE LET l == lengths[i]
         IN IF l[1] * RandomSteps <= rvalN /\ rvalN <= l[2] * RandomSteps
            THEN LET a1 == [acc EXCEPT !.matched = Append(@, regions[i])]
                 IN IF acc.num # 0
                    THEN AxisSelect(regions, axis, lengths, rvalN, i + 1, a1)
                    ELSE IF l[2] = l[1]
                         THEN [a1 EXCEPT !.raised = TRUE]
                         ELSE LET pos == AxisPosition(regions[i], axis, l, rvalN)
                              IN AxisSelect(regions, axis, lengths, rvalN, i + 1,
                                            [a1 EXCEPT !.num = pos.num,
                                                       !.den = pos.den])
            ELSE AxisSelect(regions, axis, lengths, rvalN, i + 1, acc)

\* attention.get_random_axis_position(regions, axis), random.random()
\* returning draw / RandomSteps
get_random_axis_position(regions, axis, draw) ==
    IF regions = <<>> THEN NoPosition
    ELSE LET sorted == SortedBy(regions, axis)
             ls == AxisLengths(sorted, axis, 1, AxisKey(sorted[1], axis), 0)
         IN AxisSelect(sorted, axis, ls.lengths, draw * ls.length, 1, NoPosition)

\* the list comprehension of get_point_from_regions
RECURSIVE RegionsOfType(_, _)
RegionsOfType(all_regions, region_type) ==
    IF all_regions = <<>> THEN <<>>
    ELSE LET r == Head(all_regions)
             rest == RegionsOfType(Tail(all_regions), region_type)
         IN IF r.type = region_type
            THEN <<[x |-> r.x, y |-> r.y - r.height, width |-> r.width,
                    height |-> r.height]>> \o rest
            ELSE rest

\* attention.get_point_from_regions(all_regions, region_type): the point's
\* y is -ynum / yden, its z is znum / zden
get_point_from_regions(all_regions, region_type, drawx, drawy) ==
    LET regions == RegionsOfType(all_regions, region_type)
        first == get_random_axis_position(regions, "x", drawx)
        second == get_random_axis_position(first.matched, "y", drawy)
    IN IF regions = <<>>
       THEN [raised |-> FALSE, ynum |-> 0, yden |-> 1,
             znum |-> 0, zden |-> 1, matched |-> <<>>]
       ELSE IF first.raised
            THEN [raised |-> TRUE, ynum |-> 0, yden |-> 1,
                  znum |-> 0, zden |-> 1, matched |-> <<>>]
            ELSE [raised |-> second.raised,
                  ynum |-> first.num, yden |-> first.den,
                  znum |-> second.num, zden |-> second.den,
                  matched |-> second.matched]

\* the regions given: records of the rosparam webui/.../properties/regions
Regions ==
    {r \in [x : 0..MaxCoord, y : {MaxSpan}, width : {0, 1, MaxSpan},
            height : {0, MaxSpan}, type : {"A", "B"}] :
        r.type = "B" => (r.x = 0 /\ r.width = MaxSpan /\ r.height = MaxSpan)}

RegionLists == UNION {[1..n -> Regions] : n \in 0..MaxRegions}

\* a region as get_random_axis_position reads it
Box(r) == [x |-> r.x, y |-> r.y, width |-> r.width, height |-> r.height]

SampleInit ==
    /\ a_regions \in RegionLists
    /\ a_res = [kind |-> "none"]

SampleIdle ==
    /\ a_regions = <<>>
    /\ a_res = [kind |-> "none"]

\* a call of get_random_axis_position on the regions given
SampleAxis(axis, draw) ==
    /\ a_res.kind = "none"
    /\ LET boxes == [i \in 1..Len(a_regions) |-> Box(a_regions[i])]
       IN a_res' = [kind |-> "axis", arg |-> axis,
                    out |-> get_random_axis_position(boxes, axis, draw)]
    /\ UNCHANGED a_regions

\* a call of get_point_from_regions on the regions given
SamplePoint(region_type, drawx, drawy) ==
    /\ a_res.kind = "none"
    /\ a_res' = [kind |-> "point", arg |-> region_type,
                 out |-> get_point_from_regions(a_regions, region_type,
                                                drawx, drawy)]
    /\ UNCHANGED a_regions

---------------------------------------------------------------------------
(* Specifications *)

NodeNext ==
    \/ \E data \in NodeData, pos \in 0..MaxTime :
           createNode(data, pos) /\ UNCHANGED <<pauseVars, chatVars, chatPauseVars, textVars, sampleVars>>
    \/ \E t \in 0..MaxTime, rp \in BOOLEAN, raises \in BOOLEAN :
           run(t, rp, raises) /\ UNCHANGED <<pauseVars, chatVars, chatPauseVars, textVars, sampleVars>>

InitNode == NodeInit /\ PauseIdle /\ ChatIdle /\ ChatPauseIdle
    /\ TextIdle /\ SampleIdle

SpecNode == InitNode /\ [][NodeNext]_vars

PauseNext ==
    \/ PauseTick /\ UNCHANGED <<nodeVars, chatVars, chatPauseVars, textVars, sampleVars>>
    \/ PauseClock /\ UNCHANGED <<nodeVars, chatVars, chatPauseVars, textVars, sampleVars>>
    \/ \E msg \in Msgs : PauseDispatch(msg) /\ UNCHANGED <<nodeVars, chatVars, chatPauseVars, textVars, sampleVars>>
    \/ \E msg \in Msgs : PauseEventCallback(msg) /\ UNCHANGED <<nodeVars, chatVars, chatPauseVars, textVars, sampleVars>>
    \/ PauseTimerExpire /\ UNCHANGED <<nodeVars, chatVars, chatPauseVars, textVars, sampleVars>>
    \/ PauseTimerRun /\ UNCHANGED <<nodeVars, chatVars, chatPauseVars, textVars, sampleVars>>

InitPause == PauseInit /\ NodeInit /\ ChatIdle /\ ChatPauseIdle
    /\ TextIdle /\ SampleIdle

SpecPause == InitPause /\ [][PauseNext]_vars

ChatNext ==
    \/ ChatTick /\ UNCHANGED <<nodeVars, pauseVars, chatPauseVars, textVars, sampleVars>>
    \/ ChatClock /\ UNCHANGED <<nodeVars, pauseVars, chatPauseVars, textVars, sampleVars>>
    \/ ChatInput /\ UNCHANGED <<nodeVars, pauseVars, chatPauseVars, textVars, sampleVars>>
    \/ \E event \in {"start", "stop"} :
           ChatSpeechEvent(event) /\ UNCHANGED <<nodeVars, pauseVars, chatPauseVars, textVars, sampleVars>>
    \/ \E th \in Threads : ChatAddTurnLoad(th) /\ UNCHANGED <<nodeVars, pauseVars, chatPauseVars, textVars, sampleVars>>
    \/ \E th \in Threads : ChatAddTurnStore(th) /\ UNCHANGED <<nodeVars, pauseVars, chatPauseVars, textVars, sampleVars>>
    \/ \E th \in Threads : ChatAddTurnTest(th) /\ UNCHANGED <<nodeVars, pauseVars, chatPauseVars, textVars, sampleVars>>
    \/ ChatTalkingOff /\ UNCHANGED <<nodeVars, pauseVars, chatPauseVars, textVars, sampleVars>>

InitChat == ChatInit /\ NodeInit /\ PauseIdle /\ ChatPauseIdle
    /\ TextIdle /\ SampleIdle

SpecChat == InitChat /\ [][ChatNext]_vars

ChatPauseNext ==
    \/ ChatPauseTick /\ UNCHANGED <<nodeVars, pauseVars, chatVars, textVars, sampleVars>>
    \/ ChatPauseLoop /\ UNCHANGED <<nodeVars, pauseVars, chatVars, textVars, sampleVars>>
    \/ \E event \in {"start", "stop"} :
           ChatPauseSpeechEvent(event) /\ UNCHANGED <<nodeVars, pauseVars, chatVars, textVars, sampleVars>>
    \/ ChatPauseClock /\ UNCHANGED <<nodeVars, pauseVars, chatVars, textVars, sampleVars>>

InitChatPause == ChatPauseInit /\ NodeInit /\ PauseIdle /\ ChatIdle
    /\ TextIdle /\ SampleIdle

SpecChatPause == InitChatPause /\ [][ChatPauseNext]_vars

\* the wall clock advances, and the driving thread, which sleeps 0.05 s
\* between two tests of its loop's condition, goes on running
ChatPauseFairness ==
    /\ WF_vars(ChatPauseClock /\ UNCHANGED <<nodeVars, pauseVars, chatVars, textVars, sampleVars>>)
    /\ WF_vars(ChatPauseLoop /\ UNCHANGED <<nodeVars, pauseVars, chatVars, textVars, sampleVars>>)

SpecChatPauseFair == SpecChatPause /\ ChatPauseFairness

TextNext ==
    ReplaceVariablesText
        /\ UNCHANGED <<nodeVars, pauseVars, chatVars, chatPauseVars, sampleVars>>

InitText ==
    TextInit /\ NodeInit /\ PauseIdle /\ ChatIdle /\ ChatPauseIdle /\ SampleIdle

SpecText == InitText /\ [][TextNext]_vars

SampleNext ==
    \/ \E axis \in {"x", "y"}, draw \in 0..(RandomSteps - 1) :
           SampleAxis(axis, draw)
               /\ UNCHANGED <<nodeVars, pauseVars, chatVars, chatPauseVars, textVars>>
    \/ \E region_type \in {"A", "B"}, drawx, drawy \in 0..(RandomSteps - 1) :
           SamplePoint(region_type, drawx, drawy)
               /\ UNCHANGED <<nodeVars, pauseVars, chatVars, chatPauseVars, textVars>>

InitSample ==
    SampleInit /\ NodeInit /\ PauseIdle /\ ChatIdle /\ ChatPauseIdle /\ TextIdle

SpecSample == InitSample /\ [][SampleNext]_vars

Spec == SpecNode

---------------------------------------------------------------------------
(* C1: in every tick the node's state stays or moves one step along
   Pending -> Active -> Finished, never backwards, and the variant's start
   hook has been invoked at most once. *)
C1_Lifecycle ==
    [][/\ n_made = "yes" => Rank(node') - Rank(node) \in {0, 1}
       /\ n_calls'.start <= 1]_vars

\* a node that went through the whole lifecycle by ticks
C1_Witness ==
    /\ n_made = "yes" /\ node.finished
    /\ n_calls.start = 1 /\ n_calls.stop = 1 /\ n_ticks = MaxTicks

\* createNode was called with a position strictly inside the node's span
Backfilled ==
    /\ n_made = "yes"
    /\ node.start_time < n_pos /\ n_pos < end_time(node)

(* C7 as stated: a node built by createNode at a position strictly inside
   its span is in state Active with started = TRUE, and the first tick at
   that position does not invoke start. *)
C7_Original ==
    Backfilled =>
        /\ State(node) = "Active" /\ node.started
        /\ (n_ticks = 1 /\ n_last_t = n_pos) => n_calls.start = 0

(* C7 amended: such a node is marked finished and started, the first tick
   at that position reports it active and invokes no hook. *)
C7_BackfilledStartedFinished ==
    Backfilled =>
        /\ node.finished /\ node.started
        /\ (n_ticks = 1 /\ n_last_t = n_pos) =>
               (n_calls = NoCalls /\ n_ret = "true")

C7_Witness == Backfilled /\ n_ticks = 1 /\ n_last_t = n_pos

\* a pause node with a timeout that arms a timer and nothing else configured
TimeoutOnly ==
    /\ p_cfg.topic = "" /\ p_cfg.event_param = <<>> /\ ~p_cfg.on_event
    /\ p_cfg.timeout > TimerMin

(* C4: a pause node configured with only a timeout T > 0.1 s resumes the
   Runner on its own: once it is finished (stop has cancelled its timer) it
   has called Runner.resume(); its first such call is no earlier than T
   after its start, and event_callback has run at most once. *)
C4_TimeoutResumes ==
    TimeoutOnly =>
        /\ ps.cbCount <= 1
        /\ ps.nResume >= 1 => ps.resumedAt >= ps.node.started_at + p_cfg.timeout
        /\ ps.node.finished => ps.nResume >= 1

\* a pause node that registers on a channel and arms a timeout timer
ListenerAndTimer == p_cfg.topic = "chan" /\ p_cfg.timeout > TimerMin

(* C5: with both a listener registered and a timeout timer armed, after the
   timer has called resume the listener is no longer registered, and after
   an event_callback that passed the keyword filter the timer is no longer
   armed. *)
C5_FirstTriggerCancelsOther ==
    ListenerAndTimer =>
        /\ ps.timerRan => ~ps.registered
        /\ ps.cbPassed >= 1 => ps.timer.state # "armed"

(* C6: a second run of event_callback is a no-op: it unregisters nothing,
   does not call Runner.resume(), and neither launches nor queues a
   follow-up performance. *)
C6_SecondFiringNoOp ==
    [][(ps.cbCount >= 1 /\ ps'.cbCount = ps.cbCount + 1) =>
          /\ ps'.nUnregister = ps.nUnregister
          /\ ps'.nResume = ps.nResume
          /\ ps'.nRunFull = ps.nRunFull
          /\ ps'.nQueue = ps.nQueue
          /\ ps'.nInterrupt = ps.nInterrupt]_vars

(* C10: the timer a pause node armed and the listener it registered are both
   gone once its event has fired (the timer called its function, or an
   event_callback passed the filter) and once stop has run. *)
C10_CancelledOnEventAndStop ==
    (ps.stopped \/ ps.timerRan \/ ps.cbPassed >= 1) =>
        (ps.timer.state # "armed" /\ ~ps.registered)

\* the chat node has received exactly dialog_turns user inputs, each followed
\* by a 'stop' speech event and each handled before the next arrived, nothing
\* else, and every callback has returned
ScriptedDialogDone ==
    /\ cs.clean
    /\ cs.nIn = c_cfg.dialog_turns /\ cs.nStop = c_cfg.dialog_turns
    /\ \A th \in Threads : cs.pc[th] = "idle"

(* C2: after dialog_turns user inputs, each followed by a 'stop' speech
   event, exactly one chat_end has been published in total and
   Runner.resume() has been called exactly once. *)
C2_OneChatEnd == ScriptedDialogDone => (cs.nChatEnd = 1 /\ cs.nResume = 1)

(* C3: a call of chat.resume() after the first publishes no further
   chat_end. *)
C3_ResumeIdempotent ==
    [][(cs.nResume >= 1 /\ cs'.nResume = cs.nResume + 1) =>
          cs'.nChatEnd = cs.nChatEnd]_vars

(* C9: add_turn is atomic: the turn counter equals the number of add_turn
   calls that have stored it (no lost update), and a thread about to decide
   whether the dialogue ends reads the value it wrote. *)
C9_AddTurnAtomic ==
    /\ cs.turns = cs.nStored
    /\ \A th \in Threads : cs.pc[th] = "test" => cs.turns = cs.tmp[th] + 1

(* C8: a chat_pause node with a message cannot hang the timeline: whenever
   the driving thread is in start's busy-wait it eventually leaves it,
   whether or not a speech event arrives, and resume() has then called
   Runner.resume(); it leaves no later than the first test of the loop's
   condition at or after wall clock start_timestamp + start_time +
   duration. *)
C8_BusyWaitEnds ==
    /\ (qs.pc = "wait") ~>
           (qs.pc = "idle" /\ qs.node.started /\ qs.nResume >= 1 /\ ~qs.paused)
    /\ [][(/\ qs.pc = "wait"
           /\ q_now >= qs.start_timestamp + qs.node.start_time + qs.node.duration
           /\ qs' # qs /\ qs'.run_time = qs.run_time /\ qs'.nStop = qs.nStop)
          => qs'.pc = "idle"]_vars

\* the wait ended by the clock alone: no 'stop' speech event ever arrived
C8_Witness ==
    /\ q_cfg.message /\ qs.pc = "idle" /\ qs.node.started
    /\ qs.nStop = 0 /\ qs.nResume = 1
    /\ qs.node.started_at >= qs.start_timestamp + q_cfg.start_time + q_cfg.duration
    /\ q_cfg.duration > MinDuration

(* C11: an error raised by start, stop, cont or paused is caught inside the
   tick: no exception leaves run, and the transition is made as if the hook
   had returned: a Pending node ticked after its start_time is Active, an
   Active node ticked at or after its end_time is Finished. *)
C11_HookErrorsCaught ==
    [][n_ticks' = n_ticks + 1 =>
          /\ n_ret' # "raised"
          /\ (State(node) = "Pending" /\ n_last_t' > node.start_time)
                 => State(node') = "Active"
          /\ (State(node) = "Active" /\ n_last_t' >= end_time(node))
                 => State(node') = "Finished"]_vars

(* C12 as stated: Finished is absorbing, and a tick on a Finished node
   returns false unless the node never started, in which case it returns
   true while t < end_time. *)
C12_Original ==
    [][/\ node.finished => node'.finished
       /\ (node.finished /\ n_ticks' = n_ticks + 1) =>
              n_ret' = IF ~node.started /\ n_last_t' < end_time(node)
                       THEN "true" ELSE "false"]_vars

(* C12 amended: Finished is absorbing, and a tick on a Finished node calls
   no hook, changes no field and returns false if the node is not marked
   started; if it is marked started it returns true while t < end_time and
   false otherwise. *)
C12_FinishedTick ==
    [][/\ node.finished => node'.finished
       /\ (node.finished /\ n_ticks' = n_ticks + 1) =>
              /\ node' = node /\ n_calls' = n_calls
              /\ n_ret' = IF node.started /\ n_last_t' < end_time(node)
                          THEN "true" ELSE "false"]_vars

\* a back-filled node marked started was ticked inside its span and
\* reported active
C12_Witness ==
    /\ n_made = "yes" /\ node.finished /\ node.started
    /\ n_ticks >= 1 /\ n_last_t < end_time(node) /\ n_ret = "true"

(* C18: building a node from data with an unknown name or without a
   required field raises no exception out of createNode: the error is
   logged and no node is returned. *)
C18_ConstructionErrorsDropNode ==
    /\ n_made # "raised"
    /\ n_made = "dropped" => n_log >= 1

(* C19: a tick at t moves a Pending node to Active exactly when
   t > start_time and never to Finished, and moves an Active node to
   Finished exactly when t >= end_time, stop being called in that tick and
   once in all. *)
C19_TransitionsAtBoundaries ==
    [][n_ticks' = n_ticks + 1 =>
          /\ State(node) = "Pending" =>
                 State(node') = IF n_last_t' > node.start_time
                                THEN "Active" ELSE "Pending"
          /\ State(node) = "Active" =>
                 State(node') = IF n_last_t' >= end_time(node)
                                THEN "Finished" ELSE "Active"
          /\ (State(node) = "Active" /\ State(node') = "Finished") =>
                 n_calls'.stop = n_calls.stop + 1
          /\ n_calls'.stop <= 1]_vars

(* C13: an event_callback run whose message matches none of the keywords
   of event_param is ignored: the callback stays registered on its topic,
   the timer stays as it was and the Runner stays paused. *)
C13_NonMatchIgnored ==
    [][(ps'.cbCount = ps.cbCount + 1 /\ ps'.cbPassed = ps.cbPassed) =>
          /\ ps'.registered = ps.registered
          /\ ps'.ref = ps.ref
          /\ ps'.timer = ps.timer
          /\ ps'.paused = ps.paused]_vars

\* a whole-session timeout is configured and has run out at wall clock now
WholeTimeoutElapsed(now) ==
    /\ c_cfg.timeout_mode = "whole" /\ c_cfg.timeout > 0
    /\ now - cs.node.started_at >= c_cfg.timeout

(* C14: the chat node ends the dialogue (Runner.resume(), chat_end
   published, input listener unsubscribed) in the add_turn that finds the
   turn counter at dialog_turns or a configured whole-session timeout run
   out, and in no other step. *)
C14_EndsOnTurnsOrTimeout ==
    [][/\ cs'.nResume = cs.nResume + 1 =>
              /\ cs.turns >= c_cfg.dialog_turns \/ WholeTimeoutElapsed(c_now)
              /\ cs'.nChatEnd = cs.nChatEnd + 1
              /\ ~cs'.paused /\ ~cs'.subscriber
       /\ \A th \in Threads :
              (/\ cs.pc[th] = "test" /\ cs'.pc[th] # "test"
               /\ cs.turns >= c_cfg.dialog_turns \/ WholeTimeoutElapsed(c_now))
                  => cs'.nResume = cs.nResume + 1]_vars

(* C20 as stated: every node has duration >= 0.1 in every reachable state,
   resume of a chat node included, and end_time is start_time + duration,
   for a pause node start_time + 0.1. *)
C20_Original ==
    /\ \A d \in NodeData : HasDuration(d) =>
           LET n == Node_init(d)
           IN /\ n.duration >= MinDuration
              /\ end_time(n) = n.start_time +
                     (IF n.name = "pause" THEN PauseSpan ELSE n.duration)
    /\ cs.node.duration >= MinDuration
    /\ end_time(cs.node) = cs.node.start_time + cs.node.duration

(* C20 amended: construction floors duration at 0.1, and end_time is
   start_time + duration, for a pause node start_time + 0.1; a chat node
   keeps duration >= 0.1 until its resume, which sets duration to 0, so
   that end_time equals start_time from then on. *)
C20_DurationFlooredUntilResume ==
    /\ \A d \in NodeData : HasDuration(d) =>
           LET n == Node_init(d)
           IN /\ n.duration >= MinDuration
              /\ end_time(n) = n.start_time +
                     (IF n.name = "pause" THEN PauseSpan ELSE n.duration)
    /\ cs.nResume = 0 => cs.node.duration >= MinDuration
    /\ cs.nResume >= 1 => cs.node.duration = 0
    /\ end_time(cs.node) = cs.node.start_time + cs.node.duration

\* the dialogue has ended by resume and the next tick has finished the node
C20_Witness ==
    /\ cs.nResume >= 1 /\ cs.node.duration = 0
    /\ cs.node.finished /\ cs.stopped

(* C15: region sampling returns without raising for every non-empty list
   of regions with width and height >= 0, two equal regions included. *)
C15_SamplingNeverRaises ==
    (a_res.kind # "none" /\ a_regions # <<>>) => ~a_res.out.raised

(* C16: sampling one region of positive extent returns, for every draw, a
   position inside [b, b + w) along the axis and exactly that region as
   matched; get_point_from_regions on it returns y = -p with p in
   [x, x + width) and z in [y - height, y). *)
C16_SingleRegion ==
    Len(a_regions) = 1 =>
        LET r == a_regions[1]
            o == a_res.out
        IN /\ (a_res.kind = "axis" /\ AxisSpan(r, a_res.arg) > 0) =>
                  /\ ~o.raised /\ o.den > 0
                  /\ AxisKey(r, a_res.arg) * o.den <= o.num
                  /\ o.num < (AxisKey(r, a_res.arg) + AxisSpan(r, a_res.arg)) * o.den
                  /\ o.matched = <<Box(r)>>
           /\ (/\ a_res.kind = "point" /\ a_res.arg = r.type
               /\ r.width > 0 /\ r.height > 0) =>
                  /\ ~o.raised /\ o.yden > 0 /\ o.zden > 0
                  /\ r.x * o.yden <= o.ynum
                  /\ o.ynum < (r.x + r.width) * o.yden
                  /\ (r.y - r.height) * o.zden <= o.znum
                  /\ o.znum < r.y * o.zden
                  /\ o.matched = <<[Box(r) EXCEPT !.y = r.y - r.height]>>

\* one region of extent 2 was sampled with a draw above 0: the position
\* lies strictly inside it
C16_Witness ==
    /\ Len(a_regions) = 1 /\ a_res.kind = "axis" /\ a_res.arg = "x"
    /\ a_regions[1].width = MaxSpan
    /\ a_res.out.num > a_regions[1].x * a_res.out.den

\* the text with each token replaced once by its variable's value
RECURSIVE SinglePass(_, _)
SinglePass(str, vals) ==
    IF str = <<>> THEN <<>>
    ELSE IF TokenEnd(str) # 0
         THEN get_variable(vals, SubSeq(str, 2, TokenEnd(str) - 1))
                  \o SinglePass(SubSeq(str, TokenEnd(str) + 1, Len(str)), vals)
         ELSE <<Head(str)>> \o SinglePass(Tail(str), vals)

(* C17: replace_variables_text is single-pass: the text returned is the
   text given with each {name} token replaced by the variable's value, ''
   when unresolved, and nothing inside an inserted value is replaced. *)
C17_SinglePassSubstitution ==
    r_out # "none" => r_out = SinglePass(r_text, r_val)

(* C21: the turn counter of a chat node never exceeds dialog_turns: after
   the dialogue has ended no 'stop' speech event and no timeout check
   counts a further turn. *)
C21_TurnsBounded == cs.turns <= c_cfg.dialog_turns

(* C22: once a pause node is Finished no late trigger, neither its timer
   nor an event_callback delivered late, resumes the Runner, interrupts
   it, or launches or queues a follow-up performance. *)
C22_FinishedPauseInert ==
    [][ps.node.finished =>
          /\ ps'.nResume = ps.nResume
          /\ ps'.nInterrupt = ps.nInterrupt
          /\ ps'.nQueue = ps.nQueue
          /\ ps'.nRunFull = ps.nRunFull]_vars

(* C23: a pause, chat_pause or chat node has called Runner.resume() at
   most as often as Runner.pause(), which it calls at most once. *)
C23_ResumeAtMostPause ==
    /\ qs.nPause <= 1 /\ qs.nResume <= qs.nPause
    /\ ps.nPause <= 1 /\ ps.nResume <= ps.nPause
    /\ cs.nPause <= 1 /\ cs.nResume <= cs.nPause

===========================================================================
